---------------------------- MODULE Spec2Model ----------------------------
(***************************************************************************)
(* A model of gofig (src/gofig.go): a Gofig object resolves the fields of   *)
(* a settings structure from caller defaults, a config file, environment    *)
(* variables and command-line flags.                                        *)
(*                                                                          *)
(* Text (field names, tags, keys, argument tokens, paths, values) is a      *)
(* sequence of one-character strings, so that joining, case conversion,     *)
(* splitting and the parsing of values are computed, not assumed.           *)
(***************************************************************************)
EXTENDS Integers, Sequences, FiniteSets, TLC

(***************************************************************************)
(* Text helpers: strings.ToLower, strings.ToUpper, strings.Join,            *)
(* strings.SplitN(a, "=", 2), strings.Split(tag, ",")[0], filepath.Ext.     *)
(***************************************************************************)
LowerChars ==
  <<"a","b","c","d","e","f","g","h","i","j","k","l","m",
    "n","o","p","q","r","s","t","u","v","w","x","y","z">>

UpperChars ==
  <<"A","B","C","D","E","F","G","H","I","J","K","L","M",
    "N","O","P","Q","R","S","T","U","V","W","X","Y","Z">>

ToLowerChar(c) ==
  IF \E i \in 1..26 : UpperChars[i] = c
  THEN LowerChars[CHOOSE i \in 1..26 : UpperChars[i] = c]
  ELSE c

ToUpperChar(c) ==
  IF \E i \in 1..26 : LowerChars[i] = c
  THEN UpperChars[CHOOSE i \in 1..26 : LowerChars[i] = c]
  ELSE c

ToLower(s) == [i \in 1..Len(s) |-> ToLowerChar(s[i])]

ToUpper(s) == [i \in 1..Len(s) |-> ToUpperChar(s[i])]

RECURSIVE Join(_, _)
Join(elems, sep) ==
  IF Len(elems) = 0 THEN <<>>
  ELSE IF Len(elems) = 1 THEN elems[1]
  ELSE elems[1] \o sep \o Join(Tail(elems), sep)

\* the index of the first occurrence of character c in s, 0 when there is none
IndexOf(s, c) ==
  IF \E i \in 1..Len(s) : s[i] = c
  THEN CHOOSE i \in 1..Len(s) : s[i] = c /\ \A j \in 1..(i - 1) : s[j] # c
  ELSE 0

\* the index of the last occurrence of character c in s, 0 when there is none
LastIndexOf(s, c) ==
  IF \E i \in 1..Len(s) : s[i] = c
  THEN CHOOSE i \in 1..Len(s) : s[i] = c /\ \A j \in (i + 1)..Len(s) : s[j] # c
  ELSE 0

\* s cut at index i: the text before it and the text after it
cutAt(s, i) == <<SubSeq(s, 1, i - 1), SubSeq(s, i + 1, Len(s))>>

splitAt(s, i) == IF i = 0 THEN <<s>> ELSE cutAt(s, i)

\* strings.SplitN(a, sep, 2): one or two parts
SplitN2(a, sep) == splitAt(a, IndexOf(a, sep))

\* strings.Split(tag, ",")[0]
BeforeComma(tag) == splitAt(tag, IndexOf(tag, ","))[1]

\* filepath.Ext: the suffix beginning at the final dot of the final path element
extFrom(path, dot, sl) ==
  IF dot = 0 \/ dot < sl THEN <<>> ELSE SubSeq(path, dot, Len(path))

Ext(path) == extFrom(path, LastIndexOf(path, "."), LastIndexOf(path, "/"))

(***************************************************************************)
(* Value parsing: strconv.ParseBool, ParseInt, ParseUint, ParseFloat and    *)
(* time.ParseDuration, over the characters 0-9 + - . and letters.  A        *)
(* result is [ok, n, d]: n the number (an integer, a mantissa, a count of   *)
(* nanoseconds, 0/1 for a bool) and d the number of decimals of a float.    *)
(***************************************************************************)
Digits == <<"0","1","2","3","4","5","6","7","8","9">>

IsDigit(c) == \E i \in 1..10 : Digits[i] = c

DigitVal(c) == (CHOOSE i \in 1..10 : Digits[i] = c) - 1

Bad == [ok |-> FALSE, n |-> 0, d |-> 0]

Good(n, d) == [ok |-> TRUE, n |-> n, d |-> d]

RECURSIVE NumberOf(_, _, _)
NumberOf(ds, base, acc) ==
  IF Len(ds) = 0 THEN acc
  ELSE NumberOf(Tail(ds), base, acc * base + DigitVal(ds[1]))

AllDigitsBelow(ds, base) ==
  /\ Len(ds) > 0
  /\ \A i \in 1..Len(ds) : IsDigit(ds[i]) /\ DigitVal(ds[i]) < base

\* strconv.ParseUint(s, base, 64) for base 10, and for base 0 (a leading 0
\* followed by more digits selects base 8)
uintOf(ds, b) == IF AllDigitsBelow(ds, b) THEN Good(NumberOf(ds, b, 0), 0) ELSE Bad

ParseUint(s, base) ==
  IF base = 0 /\ Len(s) > 1 /\ s[1] = "0" THEN uintOf(Tail(s), 8) ELSE uintOf(s, 10)

\* strconv.ParseInt(s, base, 64): an optional sign, then ParseUint
signedInt(neg, u) ==
  IF ~u.ok THEN Bad ELSE Good(IF neg THEN 0 - u.n ELSE u.n, 0)

ParseInt(s, base) ==
  IF Len(s) = 0 THEN Bad
  ELSE IF s[1] \in {"-", "+"} THEN signedInt(s[1] = "-", ParseUint(Tail(s), base))
  ELSE signedInt(FALSE, ParseUint(s, base))

TrueTexts ==
  { <<"1">>, <<"t">>, <<"T">>, <<"T","R","U","E">>, <<"t","r","u","e">>,
    <<"T","r","u","e">> }

FalseTexts ==
  { <<"0">>, <<"f">>, <<"F">>, <<"F","A","L","S","E">>,
    <<"f","a","l","s","e">>, <<"F","a","l","s","e">> }

\* strconv.ParseBool
ParseBool(s) ==
  IF s \in TrueTexts THEN Good(1, 0)
  ELSE IF s \in FalseTexts THEN Good(0, 0)
  ELSE Bad

\* a float is kept as mantissa n and decimals d (n / 10^d), without trailing
\* zero decimals, so that 2 and 2.0 are the same value
RECURSIVE Normal(_, _)
Normal(n, d) ==
  IF d > 0 /\ n % 10 = 0 THEN Normal(n \div 10, d - 1) ELSE Good(n, d)

\* strconv.ParseFloat(s, 64): [sign] digits [. digits], one digit at least
floatDigits(neg, ip, fp) ==
  IF /\ Len(ip) + Len(fp) > 0
     /\ \A i \in 1..Len(ip) : IsDigit(ip[i])
     /\ \A i \in 1..Len(fp) : IsDigit(fp[i])
  THEN Normal((IF neg THEN 0 - 1 ELSE 1) * NumberOf(ip \o fp, 10, 0), Len(fp))
  ELSE Bad

floatParts(neg, rest, dot) ==
  IF dot = 0 THEN floatDigits(neg, rest, <<>>)
  ELSE floatDigits(neg, SubSeq(rest, 1, dot - 1), SubSeq(rest, dot + 1, Len(rest)))

ParseFloat(s) ==
  IF Len(s) = 0 THEN Bad
  ELSE IF s[1] \in {"-", "+"} THEN floatParts(s[1] = "-", Tail(s), IndexOf(Tail(s), "."))
  ELSE floatParts(FALSE, s, IndexOf(s, "."))

\* time.ParseDuration's unit table, in nanoseconds
KnownUnit(u) ==
  u \in { <<"n","s">>, <<"u","s">>, <<"m","s">>, <<"s">>, <<"m">>, <<"h">> }

UnitNs(u) ==
  CASE u = <<"n","s">> -> 1
    [] u = <<"u","s">> -> 1000
    [] u = <<"m","s">> -> 1000000
    [] u = <<"s">>     -> 1000000000
    [] u = <<"m">>     -> 60 * 1000000000
    [] u = <<"h">>     -> 3600 * 1000000000

\* the length of the longest prefix of s whose characters all satisfy IsDigit
RECURSIVE DigitRun(_)
DigitRun(s) ==
  IF Len(s) > 0 /\ IsDigit(s[1]) THEN 1 + DigitRun(Tail(s)) ELSE 0

\* the length of the longest prefix of s without a digit and without a dot
RECURSIVE UnitRun(_)
UnitRun(s) ==
  IF Len(s) > 0 /\ ~IsDigit(s[1]) /\ s[1] # "." THEN 1 + UnitRun(Tail(s)) ELSE 0

RECURSIVE Pow10(_)
Pow10(k) == IF k = 0 THEN 1 ELSE 10 * Pow10(k - 1)

\* the groups <number><unit> of a duration, summed: the integer digits, an
\* optional dot and fraction digits, then the unit, the letters up to the
\* next digit or dot
RECURSIVE DurationGroups(_, _)
groupValue(ip, fp, s3, ul, acc) ==
  IF Len(ip) + Len(fp) = 0 \/ ul = 0 \/ ~KnownUnit(SubSeq(s3, 1, ul)) THEN Bad
  ELSE DurationGroups(SubSeq(s3, ul + 1, Len(s3)),
         acc + NumberOf(ip, 10, 0) * UnitNs(SubSeq(s3, 1, ul))
             + (NumberOf(fp, 10, 0) * UnitNs(SubSeq(s3, 1, ul))) \div Pow10(Len(fp)))

groupUnit(ip, fp, s3, acc) == groupValue(ip, fp, s3, UnitRun(s3), acc)

groupFraction(ip, s2, fl, acc) ==
  groupUnit(ip, SubSeq(s2, 1, fl), SubSeq(s2, fl + 1, Len(s2)), acc)

groupDot(ip, s1, acc) ==
  IF Len(s1) > 0 /\ s1[1] = "."
  THEN groupFraction(ip, Tail(s1), DigitRun(Tail(s1)), acc)
  ELSE groupUnit(ip, <<>>, s1, acc)

groupInt(s, il, acc) == groupDot(SubSeq(s, 1, il), SubSeq(s, il + 1, Len(s)), acc)

DurationGroups(s, acc) ==
  IF Len(s) = 0 THEN Good(acc, 0) ELSE groupInt(s, DigitRun(s), acc)

\* time.ParseDuration: [sign] then "0" or one or more groups
signedDuration(neg, rest, g) ==
  IF rest = <<"0">> THEN Good(0, 0)
  ELSE IF Len(rest) = 0 \/ ~g.ok THEN Bad
  ELSE Good(IF neg THEN 0 - g.n ELSE g.n, 0)

unsignedDuration(neg, rest) == signedDuration(neg, rest, DurationGroups(rest, 0))

ParseDuration(s) ==
  IF Len(s) > 0 /\ s[1] \in {"-", "+"}
  THEN unsignedDuration(s[1] = "-", Tail(s))
  ELSE unsignedDuration(FALSE, s)

(***************************************************************************)
(* The program's constants (gofig.go, lines 59-76).                         *)
(***************************************************************************)
ContinueOnError == 0

ExitOnError == 1

PanicOnError == 2

flagSeparator == <<"-">>

envSeparator == <<"_">>

jsonExtension == <<".","j","s","o","n">>

tomlExtension == <<".","t","o","m","l">>

yamlExtension == <<".","y","a","m","l">>

cfgFileExt == <<jsonExtension, tomlExtension, yamlExtension>>

(***************************************************************************)
(* State.                                                                   *)
(*   The Gofig object: envPrefix, cfgFlagName, cfgFiles, errHandling and    *)
(*   flagSet, the sequence of registered flags [key, addr, typ].            *)
(*   The process: environ, a set of [key, val]; fs, a set of files [path,   *)
(*   st, good, kv]; osArgs; handles, the files opened and not closed;       *)
(*   stdout.                                                                *)
(*   The call: v, the destination [kind, typ]; vals and ptrs, the memory    *)
(*   of the structure it points to (a value per leaf address, and the set   *)
(*   of non-nil pointer fields); args.                                      *)
(*   Control: pc, err (the error of parse), result (what the caller gets).  *)
(*   History: phases started, paths handed to os.Open, environment keys     *)
(*   looked up, decoders run, and given, the content the caller gave the    *)
(*   structure.                                                             *)
(***************************************************************************)
VARIABLES envPrefix, cfgFlagName, cfgFiles, errHandling, flagSet,
          environ, fs, osArgs, handles, stdout,
          v, vals, ptrs, args,
          pc, err, result,
          phases, opened, envReads, decoded, given

gofigVars == <<envPrefix, cfgFlagName, cfgFiles, errHandling, flagSet>>

worldVars == <<environ, fs, osArgs, handles, stdout>>

callVars == <<v, vals, ptrs, args>>

histVars == <<phases, opened, envReads, decoded, given>>

vars == <<gofigVars, worldVars, callVars, pc, err, result, histVars>>

(***************************************************************************)
(* Values and errors.  A field value is [n, d, s]: s the text of a string   *)
(* field, n the number of a numeric field (0/1 for a bool, nanoseconds for  *)
(* a Duration), d the decimals of a float.  An error is [type, key, val,    *)
(* into]: the fields its message is made of.                                *)
(***************************************************************************)
Str(s) == [n |-> 0, d |-> 0, s |-> s]

Num(n, d) == [n |-> n, d |-> d, s |-> <<>>]

Zero == Num(0, 0)

Err(type, key, val, into) == [type |-> type, key |-> key, val |-> val, into |-> into]

NoErr == Err("nil", <<>>, <<>>, "")

\* errors.New("invalid interface value, it must be a non-nil pointer to struct")
errInvalidValue == Err("invalid interface value", <<>>, <<>>, "")

\* a Go run-time panic (index out of range, failed type assertion, flag redefined)
Crash(why) == Err("runtime panic", <<>>, <<>>, why)

(***************************************************************************)
(* Structure types.  A struct type is a sequence of fields [name, typ,      *)
(* flag, env, file, sub]: flag and env are the field's tags of those        *)
(* names, file says whether the file decoders may set it (FALSE for         *)
(* json:"-" toml:"-" yaml:"-"), sub is the struct type of a field of typ    *)
(* "struct" or "ptr" (a pointer to a struct).  A field is addressed by the  *)
(* sequence of field indexes that leads to it.                              *)
(***************************************************************************)
\* reflect.Value.Kind of a field of the given type
Kind(typ) ==
  CASE typ = "Duration"      -> "int64"
    [] typ = "time.Duration" -> "int64"
    [] typ = "MyString"      -> "string"
    [] OTHER                 -> typ

\* the tag's key, line 205
TagKey(f, cfgTag) == BeforeComma(IF cfgTag = "flag" THEN f.flag ELSE f.env)

\* a walker that knows no skip marker
NeverSkip(key) == FALSE

\* the skip marker, line 206
IsSkip(key) == key = <<"-">>

\* The path of line 211 is a Go slice: [arr, len], the first len elements
\* of the backing array arr of the heap (arr = 0 for the nil slice); the
\* capacity of the slice is the length of the array.
nilSlice == [arr |-> 0, len |-> 0]

SliceText(heap, sl) == IF sl.arr = 0 THEN <<>> ELSE SubSeq(heap[sl.arr], 1, sl.len)

Cap(heap, sl) == IF sl.arr = 0 THEN 0 ELSE Len(heap[sl.arr])

\* the capacity append gives a new backing array
growCap(old, need) == IF old = 0 \/ need > 2 * old THEN need ELSE 2 * old

\* a new backing array of capacity c that starts with the elements of text
newArray(text, c) == text \o [k \in 1..(c - Len(text)) |-> <<>>]

\* the array with its element k set to x
stored(array, k, x) == SubSeq(array, 1, k - 1) \o <<x>> \o SubSeq(array, k + 1, Len(array))

\* append(sl, x): in place when the capacity allows, else in a new array
appendTo(heap, sl, x) ==
  IF sl.len < Cap(heap, sl)
  THEN [heap |-> [heap EXCEPT ![sl.arr] = stored(@, sl.len + 1, x)],
        sl |-> [arr |-> sl.arr, len |-> sl.len + 1]]
  ELSE [heap |-> Append(heap, newArray(SliceText(heap, sl) \o <<x>>,
                                       growCap(Cap(heap, sl), sl.len + 1))),
        sl |-> [arr |-> Len(heap) + 1, len |-> sl.len + 1]]

\* the walk of parseStruct's loop (lines 200-234) over fields i..: st is
\* [heap, visits], visits the sequence of fields handed to the parser, each
\* as [path, addr, typ] with the path the parser reads from its slice
RECURSIVE walk(_, _, _, _, _, _)
\* a walk that enters a struct field with an empty prefix
visitFlat(f, a, path, cfgTag, st) ==
  IF f.typ = "struct" \/ (f.typ = "ptr" /\ a \in ptrs)
  THEN walk(f.sub, 1, a, nilSlice, cfgTag, st)
  ELSE [st EXCEPT !.visits =
          Append(@, [path |-> SliceText(st.heap, path), addr |-> a, typ |-> f.typ])]

\* lines 214-230: a struct, or a non-nil pointer to one, is walked with the
\* path as prefix; any other field (a nil pointer too) goes to the parser
visit(f, a, path, cfgTag, st) ==
  IF f.typ = "struct" \/ (f.typ = "ptr" /\ a \in ptrs)
  THEN walk(f.sub, 1, a, path, cfgTag, st)
  ELSE [st EXCEPT !.visits =
          Append(@, [path |-> SliceText(st.heap, path), addr |-> a, typ |-> f.typ])]

\* line 211 done: the path is ap.sl in the heap ap.heap
appended(f, a, cfgTag, visits, ap) ==
  visit(f, a, ap.sl, cfgTag, [heap |-> ap.heap, visits |-> visits])

\* lines 205-211: the key of the field, the skip marker, the path
walkField(f, a, parents, cfgTag, key, st) ==
  IF IsSkip(key) THEN st
  ELSE appended(f, a, cfgTag, st.visits,
                appendTo(st.heap, parents, ToLower(IF key = <<>> THEN f.name ELSE key)))

walk(fields, i, addr, parents, cfgTag, st) ==
  IF i > Len(fields) THEN st
  ELSE walk(fields, i + 1, addr, parents, cfgTag,
            walkField(fields[i], Append(addr, i), parents, cfgTag,
                      TagKey(fields[i], cfgTag), st))

\* the leaves of a struct type, whatever the tags and the pointers: the
\* addresses memory holds a value for
RECURSIVE LeafAddrs(_, _)
LeafAddrs(fields, addr) ==
  UNION { IF fields[i].typ \in {"struct", "ptr"}
          THEN LeafAddrs(fields[i].sub, Append(addr, i))
          ELSE { Append(addr, i) } : i \in 1..Len(fields) }

RECURSIVE FieldAt(_, _)
FieldAt(fields, addr) ==
  IF Len(addr) = 1 THEN fields[addr[1]]
  ELSE FieldAt(fields[addr[1]].sub, Tail(addr))

(***************************************************************************)
(* The flag registrar (flagBuilder, lines 238-266).  m is the state a walk  *)
(* threads through its callbacks: [flags, vals, reads, err].                *)
(***************************************************************************)
HasFlag(flags, key) == \E i \in 1..Len(flags) : flags[i].key = key

\* flag.FlagSet.Var: panics when the name is already registered
Register(m, key, addr, typ) ==
  IF HasFlag(m.flags, key)
  THEN [m EXCEPT !.err = Crash("flag redefined")]
  ELSE [m EXCEPT !.flags = Append(@, [key |-> key, addr |-> addr, typ |-> typ])]

\* lines 244-264: the switch on the kind, and the type assertions pv.(*T),
\* which panic when the field's type is a named type of that kind
flagBuilderAt(m, vis, key) ==
  IF Kind(vis.typ) \in {"string", "bool", "int", "uint", "uint64", "float64"}
  THEN IF vis.typ = Kind(vis.typ)
       THEN Register(m, key, vis.addr, vis.typ)
       ELSE [m EXCEPT !.err = Crash("interface conversion")]
  ELSE IF Kind(vis.typ) = "int64"
  THEN IF vis.typ \in {"Duration", "int64"}
       THEN Register(m, key, vis.addr, vis.typ)
       ELSE [m EXCEPT !.err = Crash("interface conversion")]
  ELSE m

flagBuilder(m, vis) == flagBuilderAt(m, vis, Join(vis.path, flagSeparator))

(***************************************************************************)
(* The environment decoder (getEnvKey, envDecoder, lines 268-320).          *)
(***************************************************************************)
\* a key that always starts with the prefix and a separator
prefixedEnvKey(path) == ToUpper(Join(<<envPrefix>> \o path, envSeparator))

getEnvKey(path) ==
  ToUpper(Join(IF envPrefix # <<>> THEN <<envPrefix>> \o path ELSE path,
               envSeparator))

\* os.LookupEnv
LookupEnv(key) ==
  IF \E e \in environ : e.key = key
  THEN [ok |-> TRUE, val |-> (CHOOSE e \in environ : e.key = key).val]
  ELSE [ok |-> FALSE, val |-> <<>>]

envParseError(key, val, into) == Err("error parsing environment variable", key, val, into)

\* the value a numeric kind parses the text into
EnvNumber(typ, val) ==
  CASE typ = "bool"            -> ParseBool(val)
    [] typ = "Duration"        -> ParseDuration(val)
    [] Kind(typ) \in {"int", "int64"}   -> ParseInt(val, 10)
    [] Kind(typ) \in {"uint", "uint64"} -> ParseUint(val, 10)
    [] Kind(typ) = "float64"   -> ParseFloat(val)

\* an error that names the kind of every field, a Duration's too
kindEnvError(typ, key, val) ==
  IF typ = "bool" THEN Err("strconv.ParseBool", <<>>, val, "")
  ELSE envParseError(key, val, Kind(typ))

\* the error of a value that does not parse: lines 289, 296, 302, 309, 315
EnvError(typ, key, val) ==
  CASE typ = "bool"     -> Err("strconv.ParseBool", <<>>, val, "")
    [] typ = "Duration" -> envParseError(key, val, "gofig.Duration")
    [] OTHER            -> envParseError(key, val, Kind(typ))

\* lines 283-318: the variable is present with value val
setFromEnv(m, vis, key, val, r) ==
  IF Kind(vis.typ) = "string" THEN [m EXCEPT !.vals[vis.addr] = Str(val)]
  ELSE IF r.ok THEN [m EXCEPT !.vals[vis.addr] = Num(r.n, r.d)]
  ELSE [m EXCEPT !.err = EnvError(vis.typ, key, val)]

\* lines 278-282
lookedUp(m, vis, key, got) ==
  IF ~got.ok THEN m
  ELSE IF Kind(vis.typ) \in
            {"string", "bool", "int", "int64", "uint", "uint64", "float64"}
  THEN setFromEnv(m, vis, key, got.val,
                  IF Kind(vis.typ) = "string" THEN Bad ELSE EnvNumber(vis.typ, got.val))
  ELSE m

envDecoderAt(m, vis, key) ==
  lookedUp([m EXCEPT !.reads = Append(@, key)], vis, key, LookupEnv(key))

envDecoder(m, vis) == envDecoderAt(m, vis, getEnvKey(vis.path))

(***************************************************************************)
(* parseStruct (lines 188-236): the target check, then the parser on each   *)
(* visited field in walk order, stopping at the first error.                *)
(***************************************************************************)
parser(cfgTag, m, vis) ==
  IF cfgTag = "flag" THEN flagBuilder(m, vis) ELSE envDecoder(m, vis)

RECURSIVE runParser(_, _, _)
\* a walk that goes on to the next field after an error
parsedOn(visits, cfgTag, m1) == runParser(Tail(visits), cfgTag, m1)

\* lines 230-233: the first error ends the walk
parsed(visits, cfgTag, m1) ==
  IF m1.err # NoErr THEN m1 ELSE runParser(Tail(visits), cfgTag, m1)

runParser(visits, cfgTag, m) ==
  IF Len(visits) = 0 THEN m
  ELSE parsed(visits, cfgTag, parser(cfgTag, m, visits[1]))

\* a check of lines 189-192 alone: any non-nil pointer
pointerTarget(dest) == dest.kind \in {"ptr to struct", "ptr to int"}

\* lines 189-197
ValidTarget(dest) == dest.kind = "ptr to struct"

parseStruct(dest, cfgTag, m) ==
  IF ~ValidTarget(dest) THEN [m EXCEPT !.err = errInvalidValue]
  ELSE runParser(walk(dest.typ, 1, <<>>, nilSlice, cfgTag,
                      [heap |-> <<>>, visits |-> <<>>]).visits, cfgTag, m)


(***************************************************************************)
(* The config-file phase (parseConfigFlag, parseConfigFile,                 *)
(* decodeConfigFile, lines 322-375).  r is the state the phase threads:     *)
(* [opened, handles, decoded, vals, ptrs, err].                             *)
(***************************************************************************)
\* the scan of the argument list from its i-th token on: [crash, val]; the
\* bound of line 325 is the length of os.Args, the index that of args
RECURSIVE configFlagScan(_, _)
scanToken(a, i, name, as) ==
  IF a[i] = name /\ Len(osArgs) > i
  THEN IF i + 1 > Len(a)
       THEN [crash |-> TRUE, val |-> <<>>]
       ELSE [crash |-> FALSE, val |-> a[i + 1]]
  ELSE IF as[1] = name /\ Len(as) > 1
  THEN [crash |-> FALSE, val |-> as[2]]
  ELSE configFlagScan(a, i + 1)

configFlagScan(a, i) ==
  IF i > Len(a) THEN [crash |-> FALSE, val |-> <<>>]
  ELSE scanToken(a, i, <<"-">> \o cfgFlagName, SplitN2(a[i], "="))

parseConfigFlag(a) == configFlagScan(a, 1)

\* os.Open and os.IsNotExist
Exists(path) == \E f \in fs : f.path = path

FileAt(path) == CHOOSE f \in fs : f.path = path

osOpen(path) ==
  IF ~Exists(path) THEN Err("open", <<>>, path, "no such file or directory")
  ELSE IF FileAt(path).st = "denied" THEN Err("open", <<>>, path, "permission denied")
  ELSE NoErr

IsNotExist(e) == e.into = "no such file or directory"

\* whether the file decoders can reach the leaf: every field on the way has
\* a document key
RECURSIVE FileSettable(_, _)
FileSettable(fields, addr) ==
  /\ addr[1] \in 1..Len(fields)
  /\ fields[addr[1]].file
  /\ IF Len(addr) = 1 THEN fields[addr[1]].typ \notin {"struct", "ptr"}
     ELSE /\ fields[addr[1]].typ \in {"struct", "ptr"}
          /\ FileSettable(fields[addr[1]].sub, Tail(addr))

\* the pointer fields on the way to the leaf, which a decoder allocates
PtrsTo(fields, addr) ==
  { SubSeq(addr, 1, k) : k \in { j \in 1..(Len(addr) - 1) :
                                   FieldAt(fields, SubSeq(addr, 1, j)).typ = "ptr" } }

\* what a decoder (json, toml, yaml) does with the keys of the document
assign(fields, hit, r) ==
  [r EXCEPT !.vals = [a \in DOMAIN @ |->
                        IF \E e \in hit : e.addr = a
                        THEN (CHOOSE e \in hit : e.addr = a).val
                        ELSE @[a]],
            !.ptrs = @ \cup UNION { PtrsTo(fields, e.addr) : e \in hit }]

Decoded(fields, kv, r) ==
  assign(fields, { e \in kv : FileSettable(fields, e.addr) }, r)

\* a switch whose default is the JSON decoder
jsonByDefault(ext) ==
  IF ext = tomlExtension THEN "toml"
  ELSE IF ext = yamlExtension THEN "yaml"
  ELSE "json"

\* the switch of lines 365-373: the decoder an extension selects
Decoder(ext) ==
  IF ext = jsonExtension THEN "json"
  ELSE IF ext = tomlExtension THEN "toml"
  ELSE IF ext = yamlExtension THEN "yaml"
  ELSE "none"

\* the decoder by runs on the file f: it sets what it read, and fails on a
\* document it cannot parse
decoderRun(path, f, by, r) ==
  IF f.good
  THEN Decoded(v.typ, f.kv, [r EXCEPT !.decoded = Append(@, [path |-> path, by |-> by])])
  ELSE [r EXCEPT !.decoded = Append(@, [path |-> path, by |-> by]),
                 !.err = Err("decode", <<>>, path, by)]

dispatch(path, by, r) ==
  IF by = "none"
  THEN [r EXCEPT !.err = Err("config file type not supported", <<>>, <<>>, "")]
  ELSE decoderRun(path, FileAt(path), by, r)

\* lines 364-375
decodeConfigFile(path, r) == dispatch(path, Decoder(Ext(path)), r)

\* the candidates with the loops of lines 348-349 exchanged: every base
\* name with the first extension, then with the second, then the third
byExtension(files) ==
  [i \in 1..(Len(files) * Len(cfgFileExt)) |->
     files[((i - 1) % Len(files)) + 1] \o cfgFileExt[((i - 1) \div Len(files)) + 1]]

\* the candidates of the search list, in probing order (lines 348-349)
RECURSIVE Candidates(_)
Candidates(files) ==
  IF Len(files) = 0 THEN <<>>
  ELSE [i \in 1..Len(cfgFileExt) |-> files[1] \o cfgFileExt[i]]
       \o Candidates(Tail(files))

\* the state after os.Open(path) returned e: the attempt, and the handle it
\* leaves open when it succeeded
afterOpen(path, e, r) ==
  IF e = NoErr
  THEN [r EXCEPT !.opened = Append(@, path), !.handles = Append(@, path)]
  ELSE [r EXCEPT !.opened = Append(@, path)]

\* lines 348-361
RECURSIVE search(_, _)
probed(cands, e, r1) ==
  IF e # NoErr
  THEN IF IsNotExist(e) THEN search(Tail(cands), r1)
       ELSE [r1 EXCEPT !.err = e]
  ELSE decodeConfigFile(cands[1], r1)

probe(cands, e, r) == probed(cands, e, afterOpen(cands[1], e, r))

search(cands, r) ==
  IF Len(cands) = 0 THEN r ELSE probe(cands, osOpen(cands[1]), r)

\* an explicit path that falls back to the search list when it cannot be
\* opened
fallBack(path, e, r1) ==
  IF e # NoErr THEN search(Candidates(cfgFiles), r1) ELSE decodeConfigFile(path, r1)

\* lines 340-346
explicitOpened(path, e, r1) ==
  IF e # NoErr THEN [r1 EXCEPT !.err = e] ELSE decodeConfigFile(path, r1)

explicit(path, e, r) == explicitOpened(path, e, afterOpen(path, e, r))

\* lines 336-362
located(cfgFlag, r) ==
  IF cfgFlag.crash THEN [r EXCEPT !.err = Crash("index out of range")]
  ELSE IF cfgFlag.val # <<>> THEN explicit(cfgFlag.val, osOpen(cfgFlag.val), r)
  ELSE search(Candidates(cfgFiles), r)

parseConfigFile(a, r) == located(parseConfigFlag(a), r)

(***************************************************************************)
(* flag.FlagSet.Parse, the last phase (line 179): the standard library's    *)
(* parser over the flags registered so far.  m is [vals, err].              *)
(***************************************************************************)
FlagNamed(key) == CHOOSE i \in 1..Len(flagSet) : flagSet[i].key = key

flagError(what, key, val) == Err(what, key, val, "")

\* flag.Value.Set of each flag type
FlagNumber(typ, val) ==
  CASE typ = "bool"                 -> ParseBool(val)
    [] typ = "Duration"             -> ParseDuration(val)
    [] typ \in {"int", "int64"}     -> ParseInt(val, 0)
    [] typ \in {"uint", "uint64"}   -> ParseUint(val, 0)
    [] typ = "float64"              -> ParseFloat(val)

flagSetTo(fl, name, val, m, r) ==
  IF r.ok THEN [m EXCEPT !.vals[fl.addr] = Num(r.n, r.d)]
  ELSE [m EXCEPT !.err = flagError("flag: invalid value", name, val)]

\* the string flag of SetConfigFileFlag has a variable of its own
setFlag(fl, name, val, m) ==
  IF fl.typ = "string"
  THEN IF fl.addr = <<>> THEN m ELSE [m EXCEPT !.vals[fl.addr] = Str(val)]
  ELSE flagSetTo(fl, name, val, m, FlagNumber(fl.typ, val))

RECURSIVE flagParse(_, _)
flagSetDone(rest, m1) == IF m1.err # NoErr THEN m1 ELSE flagParse(rest, m1)

\* a bool flag needs no argument; any other takes the next token as its value
flagFound(rest, m, fl, name, hasValue, value) ==
  IF fl.typ = "bool"
  THEN flagSetDone(Tail(rest),
                   setFlag(fl, name, IF hasValue THEN value ELSE <<"t","r","u","e">>, m))
  ELSE IF ~hasValue /\ Len(rest) = 1
  THEN [m EXCEPT !.err = flagError("flag needs an argument", name, <<>>)]
  ELSE IF hasValue THEN flagSetDone(Tail(rest), setFlag(fl, name, value, m))
  ELSE flagSetDone(SubSeq(rest, 3, Len(rest)), setFlag(fl, name, rest[2], m))

flagNamed(rest, m, name, hasValue, value) ==
  IF ~HasFlag(flagSet, name)
  THEN IF name \in {<<"h">>, <<"h","e","l","p">>}
       THEN [m EXCEPT !.err = flagError("flag: help requested", <<>>, <<>>)]
       ELSE [m EXCEPT !.err = flagError("flag provided but not defined", name, <<>>)]
  ELSE flagFound(rest, m, flagSet[FlagNamed(name)], name, hasValue, value)

\* the name up to the first = that is not its first character
flagSplit(rest, m, name0, eq) ==
  IF eq = 0 THEN flagNamed(rest, m, name0, FALSE, <<>>)
  ELSE flagNamed(rest, m, SubSeq(name0, 1, eq), TRUE, SubSeq(name0, eq + 2, Len(name0)))

flagToken(rest, m, name0) ==
  IF name0[1] \in {"-", "="}
  THEN [m EXCEPT !.err = flagError("flag: bad flag syntax", <<>>, rest[1])]
  ELSE flagSplit(rest, m, name0, IndexOf(Tail(name0), "="))

\* parsing stops, without error, at the first token that is no flag and
\* after the terminator --
flagParse(rest, m) ==
  IF Len(rest) = 0 THEN m
  ELSE IF Len(rest[1]) < 2 \/ rest[1][1] # "-" THEN m
  ELSE IF rest[1] = <<"-", "-">> THEN m
  ELSE flagToken(rest, m, SubSeq(rest[1], IF rest[1][2] = "-" THEN 3 ELSE 2,
                                 Len(rest[1])))

(***************************************************************************)
(* Operations.  The configuration calls and the call of Parse or            *)
(* ParseWithArgs take their inputs from the sets they are given; the        *)
(* resolution then runs its phases, one step each (parse, lines 162-180),   *)
(* and ParseWithArgs applies the error policy (lines 146-160).              *)
(***************************************************************************)
\* SetEnvPrefix, lines 130-132
SetEnvPrefix(prefix) ==
  /\ pc = "setup"
  /\ envPrefix' = prefix
  /\ UNCHANGED <<cfgFlagName, cfgFiles, errHandling, flagSet, worldVars,
                 callVars, pc, err, result, histVars>>

\* AddConfigFile, lines 120-122
AddConfigFile(path) ==
  /\ pc = "setup"
  /\ cfgFiles' = Append(cfgFiles, path)
  /\ UNCHANGED <<envPrefix, cfgFlagName, errHandling, flagSet, worldVars,
                 callVars, pc, err, result, histVars>>

\* SetConfigFileFlag, lines 107-110: flagSet.String panics on a name it has
SetConfigFileFlag(name) ==
  /\ pc = "setup"
  /\ cfgFlagName' = name
  /\ IF HasFlag(flagSet, name)
     THEN /\ pc' = "crashed"
          /\ err' = Crash("flag redefined")
          /\ UNCHANGED flagSet
     ELSE /\ flagSet' = Append(flagSet, [key |-> name, addr |-> <<>>, typ |-> "string"])
          /\ UNCHANGED <<pc, err>>
  /\ UNCHANGED <<envPrefix, cfgFiles, errHandling, worldVars, callVars,
                 result, histVars>>

\* an order in which the environment is decoded after the flags are parsed
EnvAfterFlags == <<"register", "file", "flags", "env">>

\* the order of parse's phases, lines 164-179
PhaseOrder == <<"register", "file", "env", "flags">>

phaseAt(i) == IF i = Len(PhaseOrder) THEN "handle" ELSE PhaseOrder[i + 1]

PhaseAfter(p) == phaseAt(CHOOSE j \in 1..Len(PhaseOrder) : PhaseOrder[j] = p)

\* a parse that goes on to the next phase whatever the phase returned
keepGoing(p, e) == IF e.type = "runtime panic" THEN "crashed" ELSE PhaseAfter(p)

\* where parse goes after a phase that ended with error e
Continue(p, e) ==
  IF e.type = "runtime panic" THEN "crashed"
  ELSE IF e # NoErr THEN "handle"
  ELSE PhaseAfter(p)

\* ParseWithArgs is entered (line 146) with the destination v and arguments a
ParseWithArgs(a) ==
  /\ pc = "setup"
  /\ args' = a
  /\ pc' = PhaseOrder[1]
  /\ UNCHANGED <<gofigVars, worldVars, v, vals, ptrs, err, result, histVars>>

\* Parse, lines 140-142
Parse == ParseWithArgs(Tail(osArgs))

\* the state a walk threads through its callbacks
Walked == [flags |-> flagSet, vals |-> vals, reads |-> envReads, err |-> NoErr]

\* the state the config-file phase threads
Filed ==
  [opened |-> opened, handles |-> handles, decoded |-> decoded,
   vals |-> vals, ptrs |-> ptrs, err |-> NoErr]

\* parseStruct returned m in phase p
afterWalk(p, m) ==
  /\ flagSet' = m.flags
  /\ vals' = m.vals
  /\ envReads' = m.reads
  /\ err' = m.err
  /\ pc' = Continue(p, m.err)
  /\ phases' = Append(phases, p)
  /\ UNCHANGED <<envPrefix, cfgFlagName, cfgFiles, errHandling, worldVars,
                 v, ptrs, args, result, opened, decoded, given>>

afterFile(r) ==
  /\ opened' = r.opened
  /\ handles' = r.handles
  /\ decoded' = r.decoded
  /\ vals' = r.vals
  /\ ptrs' = r.ptrs
  /\ err' = r.err
  /\ pc' = Continue("file", r.err)
  /\ phases' = Append(phases, "file")
  /\ UNCHANGED <<gofigVars, environ, fs, osArgs, stdout, v, args, result,
                 envReads, given>>

afterFlags(m) ==
  /\ vals' = m.vals
  /\ err' = m.err
  /\ pc' = Continue("flags", m.err)
  /\ phases' = Append(phases, "flags")
  /\ UNCHANGED <<gofigVars, worldVars, v, ptrs, args, result, opened,
                 envReads, decoded, given>>

\* line 164
RegisterFlags ==
  /\ pc = "register"
  /\ afterWalk("register", parseStruct(v, "flag", Walked))

\* line 169
ConfigFile ==
  /\ pc = "file"
  /\ afterFile(parseConfigFile(args, Filed))

\* line 174
DecodeEnv ==
  /\ pc = "env"
  /\ afterWalk("env", parseStruct(v, "env", Walked))

\* line 179
ParseFlags ==
  /\ pc = "flags"
  /\ afterFlags(flagParse(args, [vals |-> vals, err |-> NoErr]))

\* a ParseWithArgs that returns the error under every policy
alwaysReturn(h, e) == [how |-> "return", err |-> e, code |-> 0]

\* what ParseWithArgs does with parse's error e under policy h, lines 148-159:
\* [how, err, code]
Outcome(h, e) ==
  IF e = NoErr THEN [how |-> "return", err |-> NoErr, code |-> 0]
  ELSE IF h = ExitOnError THEN [how |-> "exit", err |-> e, code |-> 2]
  ELSE IF h = PanicOnError THEN [how |-> "panic", err |-> e, code |-> 0]
  ELSE [how |-> "return", err |-> e, code |-> 0]

\* lines 148-159
HandleError ==
  /\ pc = "handle"
  /\ result' = Outcome(errHandling, err)
  /\ pc' = CASE result'.how = "exit"  -> "exited"
             [] result'.how = "panic" -> "panicked"
             [] OTHER                 -> "returned"
  /\ stdout' = IF result'.how = "exit" THEN Append(stdout, err) ELSE stdout
  /\ UNCHANGED <<gofigVars, environ, fs, osArgs, handles, callVars, err, histVars>>

\* New, lines 94-99, in a process with the given environment, files and
\* argument vector, whose caller holds the destination dest
New(h, env, files, osa, dest) ==
  /\ envPrefix = <<>>
  /\ cfgFlagName = <<>>
  /\ cfgFiles = <<>>
  /\ errHandling = h
  /\ flagSet = <<>>
  /\ environ = env
  /\ fs = files
  /\ osArgs = osa
  /\ handles = <<>>
  /\ stdout = <<>>
  /\ v = [kind |-> dest.kind, typ |-> dest.typ]
  /\ vals = dest.vals
  /\ ptrs = dest.ptrs
  /\ given = dest.vals
  /\ args = <<>>
  /\ pc = "setup"
  /\ err = NoErr
  /\ result = [how |-> "none", err |-> NoErr, code |-> 0]
  /\ phases = <<>>
  /\ opened = <<>>
  /\ envReads = <<>>
  /\ decoded = <<>>

\* the steps of one resolution
Resolve ==
  \/ RegisterFlags
  \/ ConfigFile
  \/ DecodeEnv
  \/ ParseFlags
  \/ HandleError

(***************************************************************************)
(* The settings structures the model resolves, after gofig_test.go:         *)
(*   Typed(t)  = struct { Val t; Sub struct { RenamedStr string             *)
(*               `env:"str" flag:"str"` } }           (TestStruct, l.17-32) *)
(*   Marked    = struct { A string `env:"-"`; B string `flag:"-"`;          *)
(*               H string `json:"-" toml:"-" yaml:"-" env:"-" flag:"-"`;    *)
(*               G struct `env:"-"` { I string } }                          *)
(***************************************************************************)
Field(name, typ, flag, env, file, sub) ==
  [name |-> name, typ |-> typ, flag |-> flag, env |-> env, file |-> file, sub |-> sub]

Leaf(name, typ) == Field(name, typ, <<>>, <<>>, TRUE, <<>>)

Typed(t) ==
  << Leaf(<<"V","a","l">>, t),
     Field(<<"S","u","b">>, "struct", <<>>, <<>>, TRUE,
           << Field(<<"R","e","n","a","m","e","d","S","t","r">>, "string", <<"s","t","r">>, <<"s","t","r">>, TRUE, <<>>) >>) >>

Marked ==
  << Field(<<"A">>, "string", <<>>, <<"-">>, TRUE, <<>>),
     Field(<<"B">>, "string", <<"-">>, <<>>, TRUE, <<>>),
     Field(<<"H">>, "string", <<"-">>, <<"-">>, FALSE, <<>>),
     Field(<<"G">>, "struct", <<>>, <<"-">>, TRUE, << Leaf(<<"I">>, "string") >>) >>

\* the types the README lists for flags and environment variables (l.15-26)
SupportedTypes ==
  {"string", "bool", "int", "int64", "uint", "uint64", "float64", "Duration"}

\* the content the caller gives a leaf of each type (buildTestStruct, l.487-501)
Default(t) ==
  CASE t = "string"   -> Str(<<"d">>)
    [] t = "bool"     -> Num(0, 0)
    [] t \in {"int", "int64", "time.Duration"} -> Num(0 - 99, 0)
    [] t \in {"uint", "uint64"} -> Num(99, 0)
    [] t \in {"float64", "float32"} -> Num(199, 2)
    [] t = "Duration" -> Num(99000000, 0)
    [] OTHER          -> Str(<<"d">>)

\* the value a config file holds for a leaf of each type (testParseConfig)
FileValue(t) ==
  CASE t = "string"   -> Str(<<"f">>)
    [] t = "bool"     -> Num(1, 0)
    [] t \in {"int", "int64", "time.Duration"} -> Num(0 - 1, 0)
    [] t \in {"uint", "uint64"} -> Num(1, 0)
    [] t \in {"float64", "float32"} -> Num(11, 1)
    [] t = "Duration" -> Num(1000000, 0)
    [] OTHER          -> Str(<<"f">>)

\* the destination a caller passes: a pointer to a struct of the type with
\* its defaults, or one of the invalid targets of TestParseStruct (l.715-727)
Struct(typ) ==
  [kind |-> "ptr to struct", typ |-> typ,
   vals |-> [a \in LeafAddrs(typ, <<>>) |-> Default(FieldAt(typ, a).typ)],
   ptrs |-> {}]

\* an invalid target has no fields; what it holds, if anything, is one value
Invalid(kind) ==
  [kind |-> kind, typ |-> <<>>,
   vals |-> IF kind \in {"non-pointer", "ptr to int"}
            THEN [a \in {<<>>} |-> Num(7, 0)] ELSE <<>>,
   ptrs |-> {}]

InvalidKinds == {"nil", "non-pointer", "nil pointer", "ptr to int"}


(***************************************************************************)
(* Inputs.  Bounds of the model.                                            *)
(***************************************************************************)
\* environment variables set in the process
MaxEnv == 1

\* flags on the command line (values resolution), tokens (file location)
MaxFlags == 2

\* base names added to the search list
MaxCfgFiles == 1

gf == <<"g","f">>

progName == <<"p","r","o","g">>

aJson == <<"a">> \o jsonExtension

\* a text each type parses, per source, and one it does not parse
EnvGood(t) ==
  CASE t = "string"   -> <<"e">>
    [] t = "bool"     -> <<"0">>
    [] t \in {"int", "int64"}   -> <<"-","2">>
    [] t \in {"uint", "uint64"} -> <<"2">>
    [] t = "float64"  -> <<"2",".","2">>
    [] t = "Duration" -> <<"2","m","s">>

FlagGood(t) ==
  CASE t = "string"   -> <<"g">>
    [] t = "bool"     -> <<"1">>
    [] t \in {"int", "int64"}   -> <<"-","3">>
    [] t \in {"uint", "uint64"} -> <<"3">>
    [] t = "float64"  -> <<"3",".","3">>
    [] t = "Duration" -> <<"3","m","s">>

Unparseable(t) ==
  CASE t = "string"   -> {}
    [] t = "bool"     -> { <<"2">> }
    [] t = "int"      -> { <<"2",".","2">> }
    [] t = "int64"    -> { <<"x">> }
    [] t = "uint"     -> { <<"-","2">> }
    [] t = "uint64"   -> { <<"2","m","s">> }
    [] t = "float64"  -> { <<"2","m","s">> }
    [] t = "Duration" -> { <<"2">> }

EnvVar(key, val) == [key |-> key, val |-> val]

\* the environments of at most MaxEnv of the given variables
Environments(entries) ==
  { e \in SUBSET entries :
      /\ Cardinality(e) <= MaxEnv
      /\ \A x, y \in e : x.key = y.key => x = y }

\* a flag on the command line: -key=val, -key val or -key
Group(key, form, val) == [key |-> key, form |-> form, val |-> val]

Tokens(g) ==
  CASE g.form = "=" -> << <<"-">> \o g.key \o <<"=">> \o g.val >>
    [] g.form = " " -> << <<"-">> \o g.key, g.val >>
    [] g.form = ""  -> << <<"-">> \o g.key >>

RECURSIVE ArgsOf(_)
ArgsOf(gs) == IF Len(gs) = 0 THEN <<>> ELSE Tokens(gs[1]) \o ArgsOf(Tail(gs))

GroupSeqs(groups) == UNION { [1..k -> groups] : k \in 0..MaxFlags }

\* the search lists of at most MaxCfgFiles base names
KV(addr, val) == [addr |-> addr, val |-> val]

File(path, st, good, kv) == [path |-> path, st |-> st, good |-> good, kv |-> kv]

(***************************************************************************)
(* SpecValues: the resolution of values.  A Typed(t) or a Marked            *)
(* structure, an environment of variables named after its fields (with      *)
(* and without the prefix gf), a.json with values for its fields or no      *)
(* file, and flags for its fields; the search list is a, the prefix gf.     *)
(***************************************************************************)
TypedEnv(t) ==
  { EnvVar(k, x) : k \in { <<"V","A","L">>, <<"G","F","_","V","A","L">> }, x \in {EnvGood(t)} \cup Unparseable(t) }
  \cup { EnvVar(<<"G","F","_","S","U","B","_","S","T","R">>, <<"e">>) }

MarkedEnv ==
  { EnvVar(k, <<"e">>) : k \in { <<"G","F","_","A">>, <<"G","F","_","B">>, <<"G","F","_","H">>, <<"G","F","_","G","_","I">>, <<"A">>, <<"B">> } }

TypedFiles(t) ==
  { {},
    { File(aJson, "ok", TRUE, { KV(<<1>>, FileValue(t)) }) },
    { File(aJson, "ok", TRUE, { KV(<<1>>, FileValue(t)), KV(<<2, 1>>, Str(<<"f">>)) }) } }

MarkedFiles ==
  { {},
    { File(aJson, "ok", TRUE,
           { KV(a, Str(<<"f">>)) : a \in { <<1>>, <<2>>, <<3>>, <<4, 1>> } }) } }

TypedGroups(t) ==
  { Group(<<"v","a","l">>, "=", x) : x \in {FlagGood(t)} \cup Unparseable(t) }
  \cup { Group(<<"v","a","l">>, " ", FlagGood(t)) }
  \cup (IF t = "bool" THEN { Group(<<"v","a","l">>, "", <<>>) } ELSE {})
  \cup { Group(<<"s","u","b","-","s","t","r">>, "=", <<"g">>) }

MarkedGroups ==
  { Group(k, "=", <<"g">>) : k \in { <<"a">>, <<"b">>, <<"g","-","i">> } }

IsMarked(typ) == typ = Marked

GroupsFor(typ) == IF IsMarked(typ) THEN MarkedGroups ELSE TypedGroups(typ[1].typ)

InitValues ==
  \/ \E t \in SupportedTypes : \E env \in Environments(TypedEnv(t)) :
       \E files \in TypedFiles(t) :
         New(ContinueOnError, env, files, <<progName>>, Struct(Typed(t)))
  \/ \E env \in Environments(MarkedEnv) : \E files \in MarkedFiles :
       New(ContinueOnError, env, files, <<progName>>, Struct(Marked))

NextValues ==
  \/ SetEnvPrefix(gf)
  \/ Len(cfgFiles) < MaxCfgFiles /\ AddConfigFile(<<"a">>)
  \/ \E gs \in GroupSeqs(GroupsFor(v.typ)) : ParseWithArgs(ArgsOf(gs))
  \/ Resolve

SpecValues == InitValues /\ [][NextValues]_vars

(***************************************************************************)
(* SpecFiles: the location and decoding of the config file.  The structure  *)
(* is Typed("string"); the file system holds at most MaxFiles of the files  *)
(* below, each with a value for Val that tells the files apart; the search  *)
(* list holds at most MaxBases of the base names a and b; the flag c may    *)
(* be designated to carry the explicit path.                                *)
(***************************************************************************)
\* files in the file system
MaxFiles == 2

\* base names added to the search list
MaxBases == 2

aToml == <<"a">> \o tomlExtension

aYaml == <<"a">> \o yamlExtension

bJson == <<"b">> \o jsonExtension

xIni == <<"x", ".", "i", "n", "i">>

nopeJson == <<"n", "o">> \o jsonExtension

nopeIni == <<"n", "o", ".", "i", "n", "i">>

cFlag == <<"c">>

\* a file that decodes, one that does not, one that cannot be opened
Doc(path) == File(path, "ok", TRUE, { KV(<<1>>, Str(path)) })

BadDoc(path) == File(path, "ok", FALSE, {})

Denied(path) == File(path, "denied", TRUE, { KV(<<1>>, Str(path)) })

FileVariants ==
  { Doc(aToml), Denied(aToml), Doc(aYaml), BadDoc(aYaml),
    Doc(bJson), Denied(bJson), Doc(xIni) }

FileSystems ==
  { files \in SUBSET FileVariants :
      /\ Cardinality(files) <= MaxFiles
      /\ \A x, y \in files : x.path = y.path => x = y }

\* the argument lists of a call
ArgLists ==
  { <<>>,
    << <<"-", "c", "=">> \o bJson >>,
    << <<"-", "c", "=">> \o xIni >>,
    << <<"-", "c", "=">> \o nopeIni >>,
    << <<"-", "c", "=">> \o nopeJson >>,
    << <<"-", "c">>, aYaml >>,
    << <<"-", "c">> >>,
    << <<"-", "c", "=">> >>,
    << <<"-">>, bJson >>,
    << <<"-", "=">> \o bJson >>,
    << <<"-", "c", "=">> \o bJson, <<"-", "c", "=">> \o xIni >> }

\* the argument vectors of the process
ArgVectors == { <<progName>>, <<progName, <<"-", "c">>, aYaml>> }

InitFiles ==
  \E files \in FileSystems : \E osa \in ArgVectors :
    New(ContinueOnError, {}, files, osa, Struct(Typed("string")))

NextFiles ==
  \/ cfgFlagName = <<>> /\ SetConfigFileFlag(cFlag)
  \/ \E n \in { <<"a">>, <<"b">> } : Len(cfgFiles) < MaxBases /\ AddConfigFile(n)
  \/ \E a \in ArgLists : ParseWithArgs(a)
  \/ Parse
  \/ Resolve

SpecFiles == InitFiles /\ [][NextFiles]_vars

(***************************************************************************)
(* Spec: the control of one resolution.  Every error policy, a valid        *)
(* destination and the invalid ones, and inputs that make each phase fail:  *)
(* an invalid destination (register), a document that does not decode       *)
(* (file), a variable that does not parse (env), a flag value that does     *)
(* not parse (flags).                                                       *)
(***************************************************************************)
Policies == {ContinueOnError, ExitOnError, PanicOnError}

Destinations == { Struct(Typed("int")) } \cup { Invalid(k) : k \in InvalidKinds }

ControlEnv ==
  { EnvVar(<<"G","F","_","V","A","L">>, <<"2",".","2">>), EnvVar(<<"V","A","L">>, <<"-","2">>) }

ControlFiles == { {}, { BadDoc(aJson) } }

ControlGroups ==
  { Group(<<"v","a","l">>, "=", <<"-","3">>), Group(<<"v","a","l">>, "=", <<"x">>) }

Init ==
  \E h \in Policies : \E dest \in Destinations :
    \E env \in Environments(ControlEnv) : \E files \in ControlFiles :
      New(h, env, files, <<progName>>, dest)

Next ==
  \/ SetEnvPrefix(gf)
  \/ Len(cfgFiles) < MaxCfgFiles /\ AddConfigFile(<<"a">>)
  \/ \E gs \in GroupSeqs(ControlGroups) : ParseWithArgs(ArgsOf(gs))
  \/ Resolve

Spec == Init /\ [][Next]_vars

(***************************************************************************)
(* Precedence of the sources (SpecValues).                                  *)
(***************************************************************************)
\* the flags a command line was made of
GroupsOf(a) == CHOOSE gs \in GroupSeqs(GroupsFor(v.typ)) : ArgsOf(gs) = a

\* the flags of a command line end at its first argument that is no flag:
\* the value written after a bool flag is such an argument
IsArgument(g) == g.form = " " /\ g.key = <<"v","a","l">> /\ v.typ[1].typ = "bool"

SuppliedAt(gs, key) ==
  { i \in 1..Len(gs) : gs[i].key = key /\ \A j \in 1..(i - 1) : ~IsArgument(gs[j]) }

FlagSupplies(a, key) == SuppliedAt(GroupsOf(a), key) # {}

\* the values the texts of the inputs stand for
FlagText(t) ==
  CASE t = "string"   -> Str(<<"g">>)
    [] t = "bool"     -> Num(1, 0)
    [] t \in {"int", "int64"}   -> Num(0 - 3, 0)
    [] t \in {"uint", "uint64"} -> Num(3, 0)
    [] t = "float64"  -> Num(33, 1)
    [] t = "Duration" -> Num(3000000, 0)

EnvText(t) ==
  CASE t = "string"   -> Str(<<"e">>)
    [] t = "bool"     -> Num(0, 0)
    [] t \in {"int", "int64"}   -> Num(0 - 2, 0)
    [] t \in {"uint", "uint64"} -> Num(2, 0)
    [] t = "float64"  -> Num(22, 1)
    [] t = "Duration" -> Num(2000000, 0)

\* the two leaves of a Typed structure: Val at <<1>>, Sub.RenamedStr at <<2, 1>>
LeafType(a) == IF a = <<1>> THEN v.typ[1].typ ELSE "string"

LeafFlag(a) == IF a = <<1>> THEN <<"v","a","l">> ELSE <<"s","u","b","-","s","t","r">>

LeafEnv(a) ==
  IF envPrefix = <<>>
  THEN IF a = <<1>> THEN <<"V","A","L">> ELSE <<"S","U","B","_","S","T","R">>
  ELSE IF a = <<1>> THEN <<"G","F","_","V","A","L">>
       ELSE <<"G","F","_","S","U","B","_","S","T","R">>

EnvSupplies(a) == \E e \in environ : e.key = LeafEnv(a)

\* the keys of the file that was decoded
FileKeys ==
  IF decoded = <<>> THEN {}
  ELSE UNION { f.kv : f \in { g \in fs : g.path = decoded[1].path } }

FileSupplies(a) == \E e \in FileKeys : e.addr = a

Expected(a) ==
  IF FlagSupplies(args, LeafFlag(a)) THEN FlagText(LeafType(a))
  ELSE IF EnvSupplies(a) THEN EnvText(LeafType(a))
  ELSE IF FileSupplies(a) THEN (CHOOSE e \in FileKeys : e.addr = a).val
  ELSE given[a]

Succeeded == pc = "returned" /\ result.how = "return" /\ result.err.type = "nil"

\* C1: after a successful ParseWithArgs every leaf of a supported type
\* without skip marker holds the value of the highest source that supplies
\* it: the flag's if the flag is on the command line, else the environment
\* variable's if it is present, else the decoded file's if it has the key,
\* else the value the caller gave the field.
C1_Precedence ==
  (Succeeded /\ ~IsMarked(v.typ)) =>
    \A a \in DOMAIN vals : vals[a] = Expected(a)

\* all three sources supply Val, with values that differ from the default
C1_Witness ==
  /\ Succeeded
  /\ ~IsMarked(v.typ)
  /\ FlagSupplies(args, LeafFlag(<<1>>))
  /\ EnvSupplies(<<1>>)
  /\ FileSupplies(<<1>>)
  /\ vals[<<1>>] = FlagText(LeafType(<<1>>))
  /\ vals[<<1>>] # given[<<1>>]
  /\ ~FlagSupplies(args, LeafFlag(<<2, 1>>))
  /\ FileSupplies(<<2, 1>>)
  /\ vals[<<2, 1>>] = Str(<<"f">>)

(***************************************************************************)
(* Skip markers (SpecValues, the Marked structure: A at <<1>> with          *)
(* env:"-", B at <<2>> with flag:"-", H at <<3>> with every marker, and     *)
(* the struct G at <<4>> with env:"-" and its leaf I at <<4, 1>>).          *)
(***************************************************************************)
\* the keys the environment would hold for the fields it must skip
SkippedEnvKeys ==
  { <<"A">>, <<"G","F","_","A">>, <<"H">>, <<"G","F","_","H">>,
    <<"G","_","I">>, <<"G","F","_","G","_","I">> }

SkippedByEnv == { <<1>>, <<3>>, <<4, 1>> }

SkippedByFlag == { <<2>>, <<3>> }

Registered == Len(phases) >= 1 /\ err.type # "runtime panic"

EnvDecoded == Len(phases) >= 3 /\ phases[3] = "env"

FlagKeyOf(a) == { flagSet[i].key : i \in { j \in 1..Len(flagSet) : flagSet[j].addr = a } }

C7_State ==
  IsMarked(v.typ) =>
    /\ \A i \in 1..Len(envReads) : envReads[i] \notin SkippedEnvKeys
    /\ \A a \in SkippedByFlag : FlagKeyOf(a) = {}
    /\ Registered => FlagKeyOf(<<1>>) = { <<"a">> } /\ FlagKeyOf(<<4, 1>>) = { <<"g","-","i">> }
    /\ (Succeeded /\ FlagSupplies(args, <<"a">>)) => vals[<<1>>] = Str(<<"g">>)
    /\ (Succeeded /\ FlagSupplies(args, <<"g","-","i">>)) => vals[<<4, 1>>] = Str(<<"g">>)
    /\ (EnvDecoded /\ \E e \in environ :
          e.key = IF envPrefix = <<>> THEN <<"B">> ELSE <<"G","F","_","B">>)
         => vals[<<2>>] = Str(<<"e">>)

C7_Step ==
  (IsMarked(v.typ) /\ pc = "env") =>
    \A a \in SkippedByEnv : vals'[a] = vals[a]

\* C7: skip markers are per source kind.  A field (or a struct field's
\* subtree) with env:"-" is never looked up in the environment and not
\* changed by the environment phase, but has its flag and is set by it; a
\* field with flag:"-" has no flag but is set from the environment.
C7_SkipMarkers == []C7_State /\ [][C7_Step]_vars

\* the variable named as the key of A would be exists, the environment
\* phase left A as the file set it, and the flag of the subtree of G set I
C7_Witness ==
  /\ IsMarked(v.typ)
  /\ Succeeded
  /\ envPrefix = gf
  /\ \E e \in environ : e.key = <<"G","F","_","A">>
  /\ FileSupplies(<<1>>)
  /\ vals[<<1>>] = Str(<<"f">>)
  /\ FlagSupplies(args, <<"g","-","i">>)
  /\ vals[<<4, 1>>] = Str(<<"g">>)

(***************************************************************************)
(* Keys (SpecValues).                                                       *)
(***************************************************************************)
IsPrefixOf(s, t) == Len(s) <= Len(t) /\ SubSeq(t, 1, Len(s)) = s

FlagKeys == [i \in 1..Len(flagSet) |-> flagSet[i].key]

\* the keys of the leaves in walk order, written out
ExpectedFlagKeys ==
  IF IsMarked(v.typ) THEN << <<"a">>, <<"g","-","i">> >>
  ELSE << <<"v","a","l">>, <<"s","u","b","-","s","t","r">> >>

ExpectedEnvKeys ==
  IF IsMarked(v.typ)
  THEN IF envPrefix = <<>> THEN << <<"B">> >> ELSE << <<"G","F","_","B">> >>
  ELSE IF envPrefix = <<>>
       THEN << <<"V","A","L">>, <<"S","U","B","_","S","T","R">> >>
       ELSE << <<"G","F","_","V","A","L">>, <<"G","F","_","S","U","B","_","S","T","R">> >>

\* C8: the flag key of a leaf is its lower-cased path segments joined with
\* '-'; its environment key is the upper-cased join with '_' of the prefix
\* and the segments, or of the segments alone when the prefix is empty.
C8_Keys ==
  /\ Registered => FlagKeys = ExpectedFlagKeys
  /\ IsPrefixOf(envReads, ExpectedEnvKeys)
  /\ (EnvDecoded /\ err.type = "nil") => envReads = ExpectedEnvKeys

\* prefix gf and path sub.str give GF_SUB_STR
C8_Witness ==
  /\ ~IsMarked(v.typ)
  /\ envPrefix = gf
  /\ EnvDecoded
  /\ envReads = << <<"G","F","_","V","A","L">>, <<"G","F","_","S","U","B","_","S","T","R">> >>
  /\ FlagKeys = << <<"v","a","l">>, <<"s","u","b","-","s","t","r">> >>

(***************************************************************************)
(* Environment values that do not parse (SpecValues).                       *)
(***************************************************************************)
\* the name of a type in an error message
TypeName(t) == IF t = "Duration" THEN "gofig.Duration" ELSE t

\* the variable of Val, present with a text its type does not parse
BadEnv ==
  { e \in environ : e.key = LeafEnv(<<1>>) /\ e.val \in Unparseable(LeafType(<<1>>)) }

\* what Val held when the environment phase started
BeforeEnv(a) ==
  IF FileSupplies(a) THEN (CHOOSE e \in FileKeys : e.addr = a).val ELSE given[a]

NamesAll(e) ==
  /\ err.type = "error parsing environment variable"
  /\ err.key = e.key
  /\ err.val = e.val
  /\ err.into = TypeName(LeafType(<<1>>))

\* the error of strconv.ParseBool names the value only
NamesValue(e) ==
  /\ err.type = "strconv.ParseBool"
  /\ err.key = <<>>
  /\ err.val = e.val
  /\ err.into = ""

\* C10 as stated: for bool, int, int64, uint, uint64, float64 and Duration
\* a present variable that does not parse fails the resolution with an
\* error naming key, value and type, and the field is left unchanged.
C10_Original ==
  (~IsMarked(v.typ) /\ EnvDecoded) =>
    \A e \in BadEnv : NamesAll(e) /\ vals[<<1>>] = BeforeEnv(<<1>>)

\* C10: for int, int64, uint, uint64, float64 and Duration a present
\* variable that does not parse fails the resolution with an error naming
\* key, value and type; for bool the error is the one of strconv.ParseBool,
\* which names the value but neither the key nor the type; in both cases
\* the field is left unchanged.
C10_EnvParseError ==
  (~IsMarked(v.typ) /\ EnvDecoded) =>
    \A e \in BadEnv :
      /\ IF LeafType(<<1>>) = "bool" THEN NamesValue(e) ELSE NamesAll(e)
      /\ vals[<<1>>] = BeforeEnv(<<1>>)
      /\ pc \in {"handle", "returned"}
      /\ pc = "returned" => result.err = err

\* a Duration variable that does not parse, over a value the file had set
C10_Witness ==
  /\ LeafType(<<1>>) = "Duration"
  /\ ~IsMarked(v.typ)
  /\ pc = "returned"
  /\ BadEnv # {}
  /\ FileSupplies(<<1>>)
  /\ result.err.into = "gofig.Duration"
  /\ vals[<<1>>] = Num(1000000, 0)

(***************************************************************************)
(* The order of the phases (Spec).                                          *)
(***************************************************************************)
Failed == err.type # "nil"

Stopped == pc \in {"handle", "returned", "exited", "panicked", "crashed"}

C2_State ==
  /\ IsPrefixOf(phases, <<"register", "file", "env", "flags">>)
  /\ Failed => Stopped
  /\ pc = "register" => phases = <<>>
  /\ pc = "file" => phases = <<"register">>
  /\ pc = "env" => phases = <<"register", "file">>
  /\ pc = "flags" => phases = <<"register", "file", "env">>
  /\ flagSet # <<>> => Len(phases) >= 1
  /\ (opened # <<>> \/ vals # given) => Len(phases) >= 2
  /\ envReads # <<>> => Len(phases) >= 3

C2_Step ==
  /\ Failed => UNCHANGED <<vals, ptrs, opened, handles, decoded, envReads, flagSet,
                           phases, err>>
  /\ pc = "register" => UNCHANGED <<vals, ptrs, opened, envReads>>
  /\ pc = "file" => UNCHANGED <<envReads, flagSet>>
  /\ pc = "env" => UNCHANGED <<opened, decoded, flagSet>>
  /\ pc = "flags" => UNCHANGED <<opened, decoded, envReads, flagSet>>

\* C2: a resolution runs register, file, env, flags in that order; a phase
\* starts only after the one before returned without error, and after the
\* first error no phase runs: no file is opened, no variable is read, no
\* flag is parsed and the structure is not changed.
C2_PhaseOrder == []C2_State /\ [][C2_Step]_vars

\* the file phase failed with a variable present and a flag on the command
\* line: neither was read
C2_Witness ==
  /\ pc = "returned"
  /\ phases = <<"register", "file">>
  /\ err.type = "decode"
  /\ environ # {}
  /\ args # <<>>
  /\ envReads = <<>>
  /\ vals = given

(***************************************************************************)
(* The error policy (Spec).                                                 *)
(***************************************************************************)
Finished == pc \in {"returned", "exited", "panicked"}

\* C3: the policy decides the outcome of a failed resolution: under
\* ContinueOnError the error is returned, under ExitOnError it is printed
\* and the process exits with status 2, under PanicOnError ParseWithArgs
\* panics with it; a resolution that succeeds returns no error under every
\* policy.
C3_Policy ==
  /\ pc # "crashed"
  /\ Finished =>
       IF ~Failed
       THEN pc = "returned" /\ result.how = "return" /\ result.err.type = "nil" /\ stdout = <<>>
       ELSE CASE errHandling = ContinueOnError ->
                   pc = "returned" /\ result.how = "return" /\ result.err = err /\ stdout = <<>>
              [] errHandling = ExitOnError ->
                   pc = "exited" /\ result.how = "exit" /\ result.code = 2 /\ stdout = <<err>>
              [] errHandling = PanicOnError ->
                   pc = "panicked" /\ result.how = "panic" /\ result.err = err /\ stdout = <<>>

\* the environment phase failed under ExitOnError
C3_Witness ==
  /\ errHandling = ExitOnError
  /\ pc = "exited"
  /\ phases = <<"register", "file", "env">>
  /\ err.type = "error parsing environment variable"
  /\ stdout = <<err>>
  /\ result.code = 2

(***************************************************************************)
(* Invalid destinations (Spec).                                             *)
(***************************************************************************)
InvalidTarget == v.kind \in {"nil", "non-pointer", "nil pointer", "ptr to int"}

\* C6: a resolution whose destination is nil, no pointer, a nil pointer or
\* a pointer to a non-struct fails in the register phase with the
\* invalid-target error: no flag is registered, no file opened, no variable
\* read, nothing changed.
C6_InvalidTarget ==
  (InvalidTarget /\ Len(phases) >= 1) =>
    /\ phases = <<"register">>
    /\ err.type = "invalid interface value"
    /\ pc \in {"handle", "returned", "exited", "panicked"}
    /\ Finished => result.err.type = "invalid interface value"
    /\ flagSet = <<>>
    /\ opened = <<>>
    /\ decoded = <<>>
    /\ envReads = <<>>
    /\ vals = given

\* a pointer to an int, with a file to find, a variable to read and a flag
\* to parse
C6_Witness ==
  /\ v.kind = "ptr to int"
  /\ pc = "returned"
  /\ result.err.type = "invalid interface value"
  /\ cfgFiles # <<>>
  /\ fs # {}
  /\ environ # {}
  /\ args # <<>>
  /\ vals = given

(***************************************************************************)
(* The config file (SpecFiles).                                             *)
(***************************************************************************)
\* what the scan of the arguments found
Scanned == parseConfigFlag(args)

NoExplicit == ~Scanned.crash /\ Scanned.val = <<>>

Explicit == ~Scanned.crash /\ Scanned.val # <<>>

FileDone == Len(phases) >= 2

\* the file phase was the last to run: err is its error
FileLast == Len(phases) = 2

\* the candidates of a search list, written out
RECURSIVE Probes(_)
Probes(files) ==
  IF files = <<>> THEN <<>>
  ELSE << files[1] \o <<".", "j", "s", "o", "n">>,
          files[1] \o <<".", "t", "o", "m", "l">>,
          files[1] \o <<".", "y", "a", "m", "l">> >> \o Probes(Tail(files))

Present(path) == \E f \in fs : f.path = path

Openable(path) == \E f \in fs : f.path = path /\ f.st = "ok"

Decodable(path) == \E f \in fs : f.path = path /\ f.st = "ok" /\ f.good

FirstPresent(cands) ==
  CHOOSE k \in 1..Len(cands) : Present(cands[k]) /\ \A j \in 1..(k - 1) : ~Present(cands[j])

NonePresent(cands) ==
  /\ opened = cands
  /\ decoded = <<>>
  /\ FileLast => err.type = "nil" /\ vals = given

DecodedOnly(path) ==
  /\ Len(decoded) = 1
  /\ decoded[1].path = path
  /\ (FileLast /\ Decodable(path)) => err.type = "nil" /\ vals[<<1>>] = Str(path)

OpenFailed(path) ==
  /\ decoded = <<>>
  /\ FileLast
  /\ err.type = "open"
  /\ err.val = path
  /\ vals = given

\* C4 as stated: without explicit value the phase probes the base names in
\* the order added, each with .json, .toml, .yaml in that order, decodes
\* the first candidate that exists and opens none after it; when none
\* exists it succeeds and leaves the structure unchanged.
C4_Original ==
  (FileDone /\ NoExplicit) =>
    IF \A k \in 1..Len(Probes(cfgFiles)) : ~Present(Probes(cfgFiles)[k])
    THEN NonePresent(Probes(cfgFiles))
    ELSE /\ opened = SubSeq(Probes(cfgFiles), 1, FirstPresent(Probes(cfgFiles)))
         /\ DecodedOnly(Probes(cfgFiles)[FirstPresent(Probes(cfgFiles))])

\* C4: without explicit value the phase probes the base names in the order
\* added, each with .json, .toml, .yaml in that order, and opens no
\* candidate after the first that exists: it decodes that candidate when it
\* can be opened, and fails with the open error when it cannot; when no
\* candidate exists it succeeds and leaves the structure unchanged.
C4_SearchList ==
  (FileDone /\ NoExplicit) =>
    IF \A k \in 1..Len(Probes(cfgFiles)) : ~Present(Probes(cfgFiles)[k])
    THEN NonePresent(Probes(cfgFiles))
    ELSE /\ opened = SubSeq(Probes(cfgFiles), 1, FirstPresent(Probes(cfgFiles)))
         /\ IF Openable(Probes(cfgFiles)[FirstPresent(Probes(cfgFiles))])
            THEN DecodedOnly(Probes(cfgFiles)[FirstPresent(Probes(cfgFiles))])
            ELSE OpenFailed(Probes(cfgFiles)[FirstPresent(Probes(cfgFiles))])

\* a.yaml of the first base name is decoded, b.json of the second is not
\* opened
C4_Witness ==
  /\ FileDone
  /\ NoExplicit
  /\ cfgFiles = << <<"a">>, <<"b">> >>
  /\ Present(<<"b", ".", "j", "s", "o", "n">>)
  /\ opened = << <<"a", ".", "j", "s", "o", "n">>, <<"a", ".", "t", "o", "m", "l">>,
                 <<"a", ".", "y", "a", "m", "l">> >>
  /\ decoded = << [path |-> <<"a", ".", "y", "a", "m", "l">>, by |-> "yaml"] >>
  /\ vals[<<1>>] = Str(<<"a", ".", "y", "a", "m", "l">>)

\* C5: with an explicit value found in the arguments the phase opens that
\* path and no other, whatever the search list holds; when the path cannot
\* be opened the resolution fails with the open error.
C5_ExplicitPath ==
  (FileDone /\ Explicit) =>
    /\ opened = << Scanned.val >>
    /\ \A i \in 1..Len(decoded) : decoded[i].path = Scanned.val
    /\ ~Openable(Scanned.val) => OpenFailed(Scanned.val)
    /\ Finished /\ ~Openable(Scanned.val) => result.err.type = "open"

\* -c=no.json with a.toml of the search list present
C5_Witness ==
  /\ cfgFlagName = <<"c">>
  /\ args = << <<"-", "c", "=", "n", "o", ".", "j", "s", "o", "n">> >>
  /\ cfgFiles = << <<"a">> >>
  /\ Openable(<<"a", ".", "t", "o", "m", "l">>)
  /\ pc = "returned"
  /\ opened = << <<"n", "o", ".", "j", "s", "o", "n">> >>
  /\ result.err.type = "open"
  /\ decoded = <<>>

EndsWith(s, suffix) ==
  Len(s) >= Len(suffix) /\ SubSeq(s, Len(s) - Len(suffix) + 1, Len(s)) = suffix

DecoderFor(path) ==
  IF EndsWith(path, <<".", "j", "s", "o", "n">>) THEN "json"
  ELSE IF EndsWith(path, <<".", "t", "o", "m", "l">>) THEN "toml"
  ELSE IF EndsWith(path, <<".", "y", "a", "m", "l">>) THEN "yaml"
  ELSE "none"

\* C9: the file is decoded by the decoder of its extension; a file that
\* opens but has another extension fails the resolution with `config file
\* type not supported`, no decoder runs and the structure is not changed; an
\* explicit path that does not exist yields the open error whatever its
\* extension.
C9_Extension ==
  FileDone =>
    /\ \A i \in 1..Len(decoded) :
         decoded[i].by = DecoderFor(decoded[i].path) /\ decoded[i].by # "none"
    /\ (opened # <<>> /\ Openable(opened[Len(opened)])
          /\ DecoderFor(opened[Len(opened)]) = "none") =>
         /\ FileLast
         /\ err.type = "config file type not supported"
         /\ decoded = <<>>
         /\ vals = given
    /\ (opened # <<>> /\ Openable(opened[Len(opened)])
          /\ DecoderFor(opened[Len(opened)]) # "none") =>
         /\ Len(decoded) = 1
         /\ decoded[1].path = opened[Len(opened)]
    /\ (Explicit /\ ~Present(Scanned.val)) =>
         /\ FileLast
         /\ err.type = "open"
         /\ err.into = "no such file or directory"
         /\ decoded = <<>>

\* -c=x.ini with x.ini present
C9_Witness ==
  /\ cfgFlagName = <<"c">>
  /\ args = << <<"-", "c", "=", "x", ".", "i", "n", "i">> >>
  /\ Openable(<<"x", ".", "i", "n", "i">>)
  /\ pc = "returned"
  /\ opened = << <<"x", ".", "i", "n", "i">> >>
  /\ result.err.type = "config file type not supported"
  /\ decoded = <<>>
  /\ vals = given

(***************************************************************************)
(* SpecWalk: the walk of the structure.  The destinations are               *)
(*   Odd(t)  = struct { Val t; Last string } for a type t that is none of   *)
(*             the supported ones, and                                      *)
(*   Deep    = struct { A int; B *struct { A int; C struct { D uint;        *)
(*             E struct { F string; G struct { H string; I string };        *)
(*             J string `env:"-"` }; K string }; L string }; M string }     *)
(*             after IntStruct (gofig_test.go:702-710), with B nil or not.  *)
(***************************************************************************)
OddTypes == {"float32", "int32", "slice", "time.Duration", "MyString"}

Odd(t) == << Leaf(<<"V","a","l">>, t), Leaf(<<"L","a","s","t">>, "string") >>

Nested(name, typ, sub) == Field(name, typ, <<>>, <<>>, TRUE, sub)

DeepG == << Leaf(<<"H">>, "string"), Leaf(<<"I">>, "string") >>

DeepE ==
  << Leaf(<<"F">>, "string"), Nested(<<"G">>, "struct", DeepG),
     Field(<<"J">>, "string", <<>>, <<"-">>, TRUE, <<>>) >>

DeepC == << Leaf(<<"D">>, "uint"), Nested(<<"E">>, "struct", DeepE), Leaf(<<"K">>, "string") >>

DeepB == << Leaf(<<"A">>, "int"), Nested(<<"C">>, "struct", DeepC), Leaf(<<"L">>, "string") >>

Deep == << Leaf(<<"A">>, "int"), Nested(<<"B">>, "ptr", DeepB), Leaf(<<"M">>, "string") >>

IsDeep(typ) == typ = Deep

\* Deep with the pointers of the given addresses non-nil
StructWith(typ, nonNil) == [Struct(typ) EXCEPT !.ptrs = nonNil]

WalkDestinations ==
  { Struct(Odd(t)) : t \in OddTypes } \cup { StructWith(Deep, p) : p \in { {}, { <<2>> } } }

OddEnvs == { {}, { EnvVar(<<"V","A","L">>, <<"e">>) } }

DeepEnvs ==
  { {},
    { EnvVar(<<"A">>, <<"-","2">>), EnvVar(<<"B","_","A">>, <<"-","2">>),
      EnvVar(<<"B","_","C","_","D">>, <<"x">>),
      EnvVar(<<"B","_","C","_","E","_","F">>, <<"e">>), EnvVar(<<"M">>, <<"e">>) },
    { EnvVar(<<"A">>, <<"-","2">>), EnvVar(<<"B","_","C","_","D">>, <<"2">>),
      EnvVar(<<"B","_","C","_","E","_","G","_","I">>, <<"e">>),
      EnvVar(<<"B","_","C","_","E","_","J">>, <<"e">>), EnvVar(<<"M">>, <<"e">>) },
    { EnvVar(<<"A">>, <<"x">>), EnvVar(<<"M">>, <<"e">>) },
    { EnvVar(<<"B">>, <<"e">>) } }

OddFiles(t) == { {}, { File(aJson, "ok", TRUE, { KV(<<1>>, FileValue(t)) }) } }

DeepFiles ==
  { {}, { File(aJson, "ok", TRUE, { KV(<<1>>, Num(1, 0)), KV(<<3>>, Str(<<"f">>)) }) } }

WalkArgs ==
  { <<>>, << <<"-", "m", "=", "g">> >>, << <<"-", "l", "a", "s", "t", "=", "g">> >>,
    << <<"-", "b", "-", "c", "-", "e", "-", "g", "-", "i", "=", "g">> >> }

InitWalk ==
  \E dest \in WalkDestinations :
    \E env \in (IF IsDeep(dest.typ) THEN DeepEnvs ELSE OddEnvs) :
      \E files \in (IF IsDeep(dest.typ) THEN DeepFiles ELSE OddFiles(dest.typ[1].typ)) :
        New(ContinueOnError, env, files, <<progName>>, dest)

NextWalk ==
  \/ cfgFiles = <<>> /\ AddConfigFile(<<"a">>)
  \/ \E a \in WalkArgs : ParseWithArgs(a)
  \/ Resolve

SpecWalk == InitWalk /\ [][NextWalk]_vars

(***************************************************************************)
(* Fields of other types (SpecWalk, the Odd structures).                    *)
(***************************************************************************)
IsOdd ==
  /\ v.kind = "ptr to struct"
  /\ ~IsDeep(v.typ)
  /\ v.typ[1].typ \in {"float32", "int32", "slice", "time.Duration", "MyString"}

\* C11 as stated: the registrar skips a leaf whose type is not exactly
\* string, bool, int, int64, uint, uint64, float64 or gofig.Duration (a
\* float32, an int32, a slice, a time.Duration, a named string type): it
\* registers no flag for it, returns no error and does not panic, and the
\* field is still set by the file and keeps the caller's value otherwise.
C11_Stated ==
  (IsOdd /\ Len(phases) >= 1) =>
    /\ pc # "crashed"
    /\ Len(phases) = 1 => err.type = "nil"
    /\ FlagKeyOf(<<1>>) = {}
    /\ FlagKeys = << <<"l","a","s","t">> >>
    /\ FileLast => vals[<<1>>] = BeforeEnv(<<1>>)

\* the registration of a time.Duration field ends in a run-time panic
C11_Witness ==
  /\ IsOdd
  /\ v.typ[1].typ = "time.Duration"
  /\ phases = <<"register">>
  /\ pc = "crashed"
  /\ err.type = "runtime panic"
  /\ err.into = "interface conversion"
  /\ flagSet = <<>>

(***************************************************************************)
(* File handles (SpecFiles).                                                *)
(***************************************************************************)
\* C12 as stated: every file the file phase opens is closed before the
\* phase returns, on every exit path; no handle opened by a resolution is
\* open after it.
C12_Stated == FileDone => handles = <<>>

\* a resolution that succeeded and left the file it decoded open
C12_Witness ==
  /\ Succeeded
  /\ Len(decoded) = 1
  /\ handles = << decoded[1].path >>

(***************************************************************************)
(* The scan for the config-file flag (SpecFiles).                           *)
(***************************************************************************)
HasPrefix(s, prefix) == Len(s) >= Len(prefix) /\ SubSeq(s, 1, Len(prefix)) = prefix

\* the tokens that carry a value for the flag n: -n with a token after it,
\* or -n=value
Carries(a, n) ==
  { i \in 1..Len(a) :
      \/ a[i] = <<"-">> \o n /\ i < Len(a)
      \/ HasPrefix(a[i], <<"-">> \o n \o <<"=">>) }

First(is) == CHOOSE i \in is : \A j \in is : i <= j

ValueAt(a, n, i) ==
  IF a[i] = <<"-">> \o n THEN a[i + 1] ELSE SubSeq(a[i], Len(n) + 3, Len(a[i]))

ExpectedPath(a, n) ==
  IF Carries(a, n) = {} THEN <<>> ELSE ValueAt(a, n, First(Carries(a, n)))

Called == pc # "setup"

\* C13 as stated: with the flag name n designated, for every argument list
\* the explicit path is the value of the first token that is -n followed
\* by another token of the list, or -n=value; later ones are ignored.
C13_Stated ==
  (Called /\ cfgFlagName = <<"c">>) =>
    /\ ~Scanned.crash
    /\ Scanned.val = ExpectedPath(args, <<"c">>)
    /\ pc # "crashed"
    /\ (FileDone /\ ExpectedPath(args, <<"c">>) # <<>>) =>
         opened = << ExpectedPath(args, <<"c">>) >>

\* -c a.yaml in a process started without arguments: the search list is
\* used instead
C13_Witness ==
  /\ cfgFlagName = <<"c">>
  /\ args = << <<"-", "c">>, <<"a", ".", "y", "a", "m", "l">> >>
  /\ osArgs = << progName >>
  /\ cfgFiles = << <<"b">> >>
  /\ FileDone
  /\ opened = << <<"b", ".", "j", "s", "o", "n">> >>
  /\ Len(decoded) = 1

\* C17 as stated: when no flag name was designated, no token of the
\* argument list is taken as a config-file path: the file decoded, if any,
\* is determined by the search list alone.
C17_Stated ==
  (Called /\ cfgFlagName = <<>>) =>
    /\ ~Scanned.crash
    /\ Scanned.val = <<>>
    /\ IsPrefixOf(opened, Probes(cfgFiles))

\* -=b.json without designated flag: b.json is decoded, the search list a
\* is not probed
C17_Witness ==
  /\ cfgFlagName = <<>>
  /\ args = << <<"-", "=", "b", ".", "j", "s", "o", "n">> >>
  /\ cfgFiles = << <<"a">> >>
  /\ FileDone
  /\ opened = << <<"b", ".", "j", "s", "o", "n">> >>
  /\ decoded = << [path |-> <<"b", ".", "j", "s", "o", "n">>, by |-> "json"] >>
  /\ vals[<<1>>] = Str(<<"b", ".", "j", "s", "o", "n">>)

\* C18 as stated: the scan depends on the argument list and the flag name
\* only, not on the argument vector of the process: with -n as last token
\* it yields no path and does not read past the end of the list, and a
\* token after -n is returned however the process was started.
C18_Stated ==
  (Called /\ cfgFlagName = <<"c">>) =>
    /\ ~Scanned.crash
    /\ pc # "crashed"
    /\ args = << <<"-", "c">> >> => Scanned.val = <<>>
    /\ (Len(args) = 2 /\ args[1] = <<"-", "c">>) => Scanned.val = args[2]

\* -c as last token of the list, in a process started with two arguments:
\* the scan reads past the end of the list
C18_Witness ==
  /\ cfgFlagName = <<"c">>
  /\ args = << <<"-", "c">> >>
  /\ Len(osArgs) = 3
  /\ pc = "crashed"
  /\ phases = <<"register", "file">>
  /\ err.into = "index out of range"
  /\ opened = <<>>

(***************************************************************************)
(* The walk of Deep (SpecWalk): the leaves in depth-first declaration       *)
(* order, written out, each with its flag key and its environment key.      *)
(***************************************************************************)
Visit(addr, flag, env) == [addr |-> addr, flag |-> flag, env |-> env]

\* the leaves of Deep with B non-nil; J has the marker env:"-"
DeepOrder ==
  << Visit(<<1>>, <<"a">>, <<"A">>),
     Visit(<<2, 1>>, <<"b","-","a">>, <<"B","_","A">>),
     Visit(<<2, 2, 1>>, <<"b","-","c","-","d">>, <<"B","_","C","_","D">>),
     Visit(<<2, 2, 2, 1>>, <<"b","-","c","-","e","-","f">>, <<"B","_","C","_","E","_","F">>),
     Visit(<<2, 2, 2, 2, 1>>, <<"b","-","c","-","e","-","g","-","h">>,
           <<"B","_","C","_","E","_","G","_","H">>),
     Visit(<<2, 2, 2, 2, 2>>, <<"b","-","c","-","e","-","g","-","i">>,
           <<"B","_","C","_","E","_","G","_","I">>),
     Visit(<<2, 2, 2, 3>>, <<"b","-","c","-","e","-","j">>, <<"-">>),
     Visit(<<2, 2, 3>>, <<"b","-","c","-","k">>, <<"B","_","C","_","K">>),
     Visit(<<2, 3>>, <<"b","-","l">>, <<"B","_","L">>),
     Visit(<<3>>, <<"m">>, <<"M">>) >>

\* the leaves of Deep with B nil
DeepOrderNil == << Visit(<<1>>, <<"a">>, <<"A">>), Visit(<<3>>, <<"m">>, <<"M">>) >>

RECURSIVE EnvVisits(_)
\* the visits of the environment walk: those without the marker
EnvVisits(order) ==
  IF order = <<>> THEN <<>>
  ELSE IF order[1].env = <<"-">> THEN EnvVisits(Tail(order))
  ELSE <<order[1]>> \o EnvVisits(Tail(order))

Registrations == [i \in 1..Len(flagSet) |-> [key |-> flagSet[i].key, addr |-> flagSet[i].addr]]

FlagsOf(order) == [i \in 1..Len(order) |-> [key |-> order[i].flag, addr |-> order[i].addr]]

EnvKeysOf(order) == [i \in 1..Len(order) |-> order[i].env]

\* the value the environment phase stores for the texts of DeepEnvs
Stored(val) ==
  IF val = <<"e">> THEN Str(val) ELSE IF val = <<"2">> THEN Num(2, 0) ELSE Num(0 - 2, 0)

InEnv(key) == \E e \in environ : e.key = key

ValueIn(key) == (CHOOSE e \in environ : e.key = key).val

\* what the leaf of a visit holds once the environment phase has set it
AfterEnv(vis) == IF InEnv(vis.env) THEN Stored(ValueIn(vis.env)) ELSE BeforeEnv(vis.addr)

BNil == IsDeep(v.typ) /\ <<2>> \notin ptrs

BNonNil == IsDeep(v.typ) /\ <<2>> \in ptrs

\* the environment walk was run and met no error
EnvWalked == EnvDecoded /\ (Len(phases) = 4 \/ ~Failed)

\* the environment walk was run and met an error
EnvFailed == Len(phases) = 3 /\ phases[3] = "env" /\ Failed

(***************************************************************************)
(* A nil pointer to a struct (SpecWalk, Deep with B nil).                   *)
(***************************************************************************)
\* C14 as stated: a field that is a nil pointer to a struct is skipped
\* entirely: the walk does not enter it and does not hand it to the parser,
\* so no flag is registered and no environment variable is looked up for
\* it; a non-nil pointer to a struct is walked like an embedded struct.
C14_Stated ==
  /\ BNil =>
       /\ FlagKeyOf(<<2>>) = {}
       /\ Len(phases) >= 1 => Registrations = FlagsOf(DeepOrderNil)
       /\ \A i \in 1..Len(envReads) : envReads[i] # <<"B">>
       /\ EnvWalked => envReads = EnvKeysOf(DeepOrderNil)
  /\ BNonNil =>
       /\ Len(phases) >= 1 => Registrations = FlagsOf(DeepOrder)
       /\ EnvWalked => envReads = EnvKeysOf(EnvVisits(DeepOrder))

\* B nil: the environment walk has looked up the variable B, between A and M
C14_Witness ==
  /\ BNil
  /\ Succeeded
  /\ environ = { EnvVar(<<"B">>, <<"e">>) }
  /\ Registrations = FlagsOf(DeepOrderNil)
  /\ envReads = << <<"A">>, <<"B">>, <<"M">> >>

(***************************************************************************)
(* The first error ends the walk (SpecWalk).                                *)
(***************************************************************************)
\* the place in the environment walk of the variable the error names
FailedAt(order) == CHOOSE k \in 1..Len(order) : order[k].env = err.key

ReadUpTo(order, k) ==
  /\ envReads = [i \in 1..k |-> order[i].env]
  /\ \A i \in 1..Len(order) :
       vals[order[i].addr] = IF i < k THEN AfterEnv(order[i]) ELSE BeforeEnv(order[i].addr)

StoppedAt(order) ==
  /\ \E k \in 1..Len(order) : order[k].env = err.key
  /\ InEnv(err.key)
  /\ err = envParseError(err.key, ValueIn(err.key), FieldAt(v.typ, order[FailedAt(order)].addr).typ)
  /\ ReadUpTo(order, FailedAt(order))

\* C15: when the parser returns an error for a leaf, at any depth, the walk
\* stops at once: no leaf after it in walk order is handed to the parser,
\* neither in the same struct nor in an enclosing one; the error is returned
\* unchanged; the leaves before it keep what they were set to.  In the
\* environment phase the leaves from the failing variable on keep their
\* file or default value, and the flags are never parsed.
C15_FirstError ==
  (IsDeep(v.typ) /\ EnvFailed) =>
    /\ StoppedAt(IF BNonNil THEN EnvVisits(DeepOrder) ELSE DeepOrderNil)
    /\ vals[<<2, 2, 2, 3>>] = BeforeEnv(<<2, 2, 2, 3>>)
    /\ Finished => (result.how = "return" /\ result.err = err)

\* B_C_D=x, three levels down: A and B.A are set, D, F and M are not, and M
\* keeps the value of the file
C15_Witness ==
  /\ BNonNil
  /\ pc = "returned"
  /\ result.err = envParseError(<<"B","_","C","_","D">>, <<"x">>, "uint")
  /\ envReads = << <<"A">>, <<"B","_","A">>, <<"B","_","C","_","D">> >>
  /\ vals[<<1>>] = Num(0 - 2, 0)
  /\ vals[<<2, 1>>] = Num(0 - 2, 0)
  /\ vals[<<2, 2, 1>>] = given[<<2, 2, 1>>]
  /\ vals[<<2, 2, 2, 1>>] = given[<<2, 2, 2, 1>>]
  /\ InEnv(<<"M">>)
  /\ FileSupplies(<<3>>)
  /\ vals[<<3>>] = Str(<<"f">>)

(***************************************************************************)
(* The order and the paths of the walk (SpecWalk, Deep with B non-nil).     *)
(***************************************************************************)
\* C16: a walk that meets no error hands to the parser, exactly once and in
\* depth-first declaration order, each leaf that has no skip marker for the
\* source on itself or on an ancestor, and never a struct; the path of each
\* is the segments of its ancestors from the root and then its own, also
\* for the leaves that follow a deeper sibling (K after E, L after C, M
\* after B): no segment of a sibling stays in the path.
C16_WalkOrder ==
  BNonNil =>
    /\ Len(phases) >= 1 => Registrations = FlagsOf(DeepOrder)
    /\ EnvWalked =>
         /\ envReads = EnvKeysOf(EnvVisits(DeepOrder))
         /\ Len(phases) = 3 =>
              \A i \in 1..Len(DeepOrder) :
                vals[DeepOrder[i].addr] =
                  IF DeepOrder[i].env = <<"-">> THEN BeforeEnv(DeepOrder[i].addr)
                  ELSE AfterEnv(DeepOrder[i])

\* the environment walk has read nine keys and set D, I and M; J, whose
\* variable is set, was not read
C16_Witness ==
  /\ BNonNil
  /\ phases = <<"register", "file", "env">>
  /\ ~Failed
  /\ InEnv(<<"B","_","C","_","E","_","J">>)
  /\ Len(flagSet) = 10
  /\ flagSet[8].key = <<"b","-","c","-","k">>
  /\ Len(envReads) = 9
  /\ envReads[7] = <<"B","_","C","_","K">>
  /\ vals[<<2, 2, 1>>] = Num(2, 0)
  /\ vals[<<2, 2, 2, 2, 2>>] = Str(<<"e">>)
  /\ vals[<<2, 2, 2, 3>>] = given[<<2, 2, 2, 3>>]
  /\ vals[<<3>>] = Str(<<"e">>)

=============================================================================
